---------------------------- MODULE Spec2Model ----------------------------
(***************************************************************************)
(* Claude Chat History Viewer: the Explorer (public/js/explorer.js and the *)
(* detail-panel variant) and the Time Slider (public/js/time-slider.js).   *)
(*                                                                         *)
(* Time.  An instant is a number of ticks since 00:00 UTC of day 0 of the  *)
(* model calendar; a day has TicksPerDay ticks and day 0 is a Sunday, so   *)
(* day 8 is a Monday (it stands for 2024-01-01) and day 77 a Sunday (it    *)
(* stands for 2024-03-10).  The last tick of a day stands for              *)
(* 23:59:59.999.  The browser's time zone is a fixed offset of tz ticks    *)
(* (local time = UTC + tz).                                                *)
(*                                                                         *)
(* Optional values.  null and undefined are the empty sequence, a present  *)
(* value v is <<v>>; an invalid Date (NaN) is the empty sequence too.      *)
(* Text is a sequence of one-character strings.                            *)
(***************************************************************************)
EXTENDS Integers, Sequences, FiniteSets, TLC

\* ------------------------------------------------------------------ bounds
TicksPerDay == 4
MaxConvs == 2
MaxTermLen == 2
MaxChatCalls == 3

\* ------------------------------------------------------ program constants
\* The debounce delay of the search box, 200 ms, in steps of 100 ms.
DebounceWait == 2

\* ------------------------------------------------------------- JS values
Null == <<>>
NaN == <<>>
Some(v) == <<v>>
Val(x) == x[1]
isNaN(d) == d = NaN

Min2(a, b) == IF a <= b THEN a ELSE b
Max2(a, b) == IF a >= b THEN a ELSE b
SetMin(S) == CHOOSE x \in S : \A y \in S : x <= y
SetMax(S) == CHOOSE x \in S : \A y \in S : x >= y

\* A date string: ISO-8601 text naming the instant `tick`, or text that does
\* not parse.
Iso(day, h) == [iso |-> TRUE, tick |-> day * TicksPerDay + h]
NotADate == [iso |-> FALSE, tick |-> 0]
NewDate(str) == IF str.iso THEN Some(str.tick) ELSE NaN

\* ------------------------------------------------------ the page (DOM)
\* The server-rendered chat cards: data-project, data-title, data-searchable,
\* data-date, data-warmup, and the data-month of the enclosing .month-group
\* ("" for a card outside every group).
Cards == <<
    [project |-> <<"a">>, title |-> <<"A", "b">>, searchable |-> <<"x">>,
     date |-> Iso(8, 0), warmup |-> FALSE, month |-> "2024-01"],
    [project |-> <<"a">>, title |-> <<"b">>, searchable |-> <<"b", "A">>,
     date |-> Iso(9, TicksPerDay - 1), warmup |-> TRUE, month |-> "2024-01"],
    [project |-> <<"B">>, title |-> <<>>, searchable |-> <<"a", "b">>,
     date |-> NotADate, warmup |-> FALSE, month |-> "2024-02"],
    [project |-> <<"B">>, title |-> <<"a">>, searchable |-> <<>>,
     date |-> Iso(10, 1), warmup |-> FALSE, month |-> "2024-02"],
    [project |-> <<>>, title |-> <<"b">>, searchable |-> <<"a">>,
     date |-> Iso(9, 0), warmup |-> TRUE, month |-> ""] >>
CardIds == DOMAIN Cards
\* The .month-group elements, by data-month; "2023-12" holds no card.
MonthGroups == {"2023-12", "2024-01", "2024-02"}

\* The folder paths of the sidebar ("" is All Conversations).
Folders == {<<>>, <<"a">>, <<"b">>, <<"B">>}

\* The conversation summaries of the cards above (window.conversationData).
DataCards == <<
    [project |-> <<"a">>, date |-> Iso(8, 0), messages |-> 5],
    [project |-> <<"a">>, date |-> Iso(9, TicksPerDay - 1), messages |-> 2],
    [project |-> <<"B">>, date |-> NotADate, messages |-> 4],
    [project |-> <<"B">>, date |-> Iso(10, 1), messages |-> 3],
    [project |-> <<>>, date |-> Iso(9, 0), messages |-> 0] >>

\* sessionStorage['returnContext']: absent, the empty string, other text that
\* is not JSON, or the JSON of a saved context with its dateRange.
NoContext == [kind |-> "none", start |-> Null, end |-> Null]
EmptyContext == [kind |-> "empty", start |-> Null, end |-> Null]
Malformed == [kind |-> "malformed", start |-> Null, end |-> Null]
Context(s, e) == [kind |-> "json", start |-> s, end |-> e]

VARIABLES
    \* the page's environment
    tz, conversationData, variant, storage, urlFolder,
    \* the history entries (URLs) pushed by the last run of selectFolder
    pushed,
    \* Explorer
    currentFolder, searchTerm, dateRangeStart, dateRangeEnd, ignoreWarmup,
    searchBox, timerPending, timerLeft, burst, exInit,
    cardDisplay, groupDisplay, groupCount, visibleCount, emptyDisplay,
    \* Time Slider
    currentMetric, buckets, tsFolder, selectionStart, selectionEnd,
    isDragging, dragStartIndex, onRangeChangeCallback, tsInit,
    \* detail panel (detail page): the selected chat, the cache, the panel's
    \* elements (shown or not) and what the content element holds, the URL's
    \* chat parameter and the number of entries selectChat pushed, the fetches
    \* in flight; the numbers of selectChat calls and of network requests,
    \* the keys whose fetch succeeded, and what the last selectChat step did
    selectedChatId, chatCache, detailEmpty, detailContent, detailLoading, detailText,
    rendered, urlChat, historyLen, pending, requestsSent, chatCalls, fetchedOk, chatStep,
    \* (timerLeft: the time left on the debounce timer; burst: the time since
    \* the latest input event not yet followed by a debounced run, or null)
    \* what the last step did: the routines it ran ("filterChats" when the
    \* step changed no filter state after its last filterChats) and the
    \* range-change callbacks it made; and the bars (first, latest) of the
    \* gesture under way
    ran, calls, gesture,
    \* the bar index the last pointer handler computed from its event's target
    \* (getIndexFromTarget: a bar, or null for none; null when the last step
    \* computed none)
    pointer

envVars == <<tz, conversationData, variant>>
filterVars == <<currentFolder, searchTerm, dateRangeStart, dateRangeEnd, ignoreWarmup>>
searchVars == <<searchBox, timerPending, timerLeft, burst>>
domVars == <<cardDisplay, groupDisplay, groupCount, visibleCount, emptyDisplay>>
urlVars == <<urlFolder, pushed>>
explorerVars == <<filterVars, searchVars, domVars, exInit, storage, urlVars>>
sliderVars == <<currentMetric, buckets, tsFolder, selectionStart, selectionEnd,
                isDragging, dragStartIndex, onRangeChangeCallback, tsInit>>
chatVars == <<selectedChatId, chatCache, detailEmpty, detailContent, detailLoading, detailText,
              rendered, urlChat, historyLen, pending, requestsSent, chatCalls, fetchedOk, chatStep>>
stepVars == <<ran, calls, gesture, pointer>>
vars == <<envVars, explorerVars, sliderVars, chatVars, stepVars>>

\* --------------------------------------------------------- Date methods
LocalDay(t) == (t + tz) \div TicksPerDay
SetHoursStart(t) == LocalDay(t) * TicksPerDay - tz
SetHoursEnd(t) == SetHoursStart(t) + TicksPerDay - 1
GetDay(t) == LocalDay(t) % 7
AddDays(t, k) == t + k * TicksPerDay
ToISODate(t) == t \div TicksPerDay

\* ------------------------------------------------------------ processData
getBucketKey(date, granularity) ==
    LET d == IF granularity = "week" THEN AddDays(date, 0 - GetDay(date)) ELSE date
    IN ToISODate(d)

RECURSIVE BucketStarts(_, _, _)
BucketStarts(current, end, granularity) ==
    IF current <= end
    THEN <<current>> \o BucketStarts(AddDays(current, IF granularity = "week" THEN 7 ELSE 1),
                                     end, granularity)
    ELSE <<>>

RECURSIVE SumMessages(_, _, _)
SumMessages(conversations, key, granularity) ==
    IF conversations = <<>> THEN 0
    ELSE LET conv == Head(conversations)
             date == NewDate(conv.date)
             rest == SumMessages(Tail(conversations), key, granularity)
         IN IF ~isNaN(date) /\ getBucketKey(Val(date), granularity) = key
            THEN conv.messages + rest ELSE rest

CountConversations(conversations, key, granularity) ==
    Cardinality({i \in 1..Len(conversations) :
        LET date == NewDate(conversations[i].date)
        IN ~isNaN(date) /\ getBucketKey(Val(date), granularity) = key})

RECURSIVE SortByDate(_)
SortByDate(S) ==
    IF S = {} THEN <<>>
    ELSE LET b == CHOOSE x \in S : \A y \in S : x.date <= y.date
         IN <<b>> \o SortByDate(S \ {b})

createBuckets(minDate, maxDate, granularity, conversations) ==
    LET start0 == SetHoursStart(minDate)
        start == IF granularity = "week" THEN AddDays(start0, 0 - GetDay(start0)) ELSE start0
        end == SetHoursEnd(maxDate)
        starts == BucketStarts(start, end, granularity)
        \* bucketMap.set(key, ...): a later start with the same key replaces the entry
        kept == {i \in 1..Len(starts) :
                    \A j \in 1..Len(starts) :
                        getBucketKey(starts[j], granularity) = getBucketKey(starts[i], granularity)
                            => j <= i}
        bucketMap == {[date |-> starts[i],
                       key |-> getBucketKey(starts[i], granularity),
                       conversations |->
                           CountConversations(conversations, getBucketKey(starts[i], granularity), granularity),
                       messages |->
                           SumMessages(conversations, getBucketKey(starts[i], granularity), granularity),
                       granularity |-> granularity] : i \in kept}
    IN SortByDate(bucketMap)

CeilDiv(a, b) == (a + b - 1) \div b

processData(conversations) ==
    LET dates == {Val(NewDate(conversations[i].date)) :
                    i \in {j \in 1..Len(conversations) : ~isNaN(NewDate(conversations[j].date))}}
    IN IF Len(conversations) = 0 \/ dates = {} THEN <<>>
       ELSE LET minDate == SetMin(dates)
                maxDate == SetMax(dates)
                daysDiff == CeilDiv(maxDate - minDate, TicksPerDay)
                granularity == IF daysDiff > 60 THEN "week" ELSE "day"
            IN createBuckets(minDate, maxDate, granularity, conversations)

\* ------------------------------------------------------------ filterChats
LowerChar(c) == CASE c = "A" -> "a" [] c = "B" -> "b" [] OTHER -> c
toLowerCase(s) == [i \in 1..Len(s) |-> LowerChar(s[i])]
includes(hay, needle) ==
    \E i \in 0..(Len(hay) - Len(needle)) : SubSeq(hay, i + 1, i + Len(needle)) = needle

\* Mutant for C1: the folder is compared without regard to case.
matchesFolder_IgnoringCase(card, folder) ==
    folder = <<>> \/ toLowerCase(card.project) = toLowerCase(folder)

matchesFolder(card, folder) == folder = <<>> \/ card.project = folder

\* Mutant for C2: the project name is not searched.
matchesSearch_NoProject(card, term) ==
    \/ term = <<>>
    \/ includes(toLowerCase(card.title), term)
    \/ includes(toLowerCase(card.searchable), term)

matchesSearch(card, term) ==
    \/ term = <<>>
    \/ includes(toLowerCase(card.title), term)
    \/ includes(toLowerCase(card.searchable), term)
    \/ includes(toLowerCase(card.project), term)

\* Mutant for C21: the warmup exclusion is never applied.
matchesWarmup_NeverApplied(card, ignore) == TRUE

\* The list page has no warmup filter; the detail-panel page has.
matchesWarmup(card, ignore) == variant = "detail" => (~ignore \/ ~card.warmup)

\* Mutant for C3: the end of the range is exclusive.
matchesDateRange_ExclusiveEnd(card, rangeStart, rangeEnd) ==
    IF rangeStart # Null \/ rangeEnd # Null
    THEN LET cardDate == NewDate(card.date)
         IN IF ~isNaN(cardDate)
            THEN /\ ~(rangeStart # Null /\ Val(cardDate) < Val(rangeStart))
                 /\ ~(rangeEnd # Null /\ Val(cardDate) >= Val(rangeEnd))
            ELSE TRUE
    ELSE TRUE

\* Mutant for C4: a card whose date does not parse fails an active range.
matchesDateRange_HidesUnparseable(card, rangeStart, rangeEnd) ==
    IF rangeStart # Null \/ rangeEnd # Null
    THEN LET cardDate == NewDate(card.date)
         IN IF ~isNaN(cardDate)
            THEN /\ ~(rangeStart # Null /\ Val(cardDate) < Val(rangeStart))
                 /\ ~(rangeEnd # Null /\ Val(cardDate) > Val(rangeEnd))
            ELSE FALSE
    ELSE TRUE

matchesDateRange(card, rangeStart, rangeEnd) ==
    IF rangeStart # Null \/ rangeEnd # Null
    THEN LET cardDate == NewDate(card.date)
         IN IF ~isNaN(cardDate)
            THEN /\ ~(rangeStart # Null /\ Val(cardDate) < Val(rangeStart))
                 /\ ~(rangeEnd # Null /\ Val(cardDate) > Val(rangeEnd))
            ELSE TRUE
    ELSE TRUE

CardShown(card, folder, term, rangeStart, rangeEnd, ignore) ==
    /\ matchesFolder(card, folder)
    /\ matchesSearch(card, term)
    /\ matchesDateRange(card, rangeStart, rangeEnd)
    /\ matchesWarmup(card, ignore)

\* Mutant for C5: a month's count takes every card of the group, shown or not.
MonthCount_AllCards(shown, month) == Cardinality({c \in CardIds : Cards[c].month = month})

\* monthCounts[month]: the shown cards whose closest .month-group is `month`
MonthCount(shown, month) == Cardinality({c \in CardIds : shown[c] /\ Cards[c].month = month})

\* Mutant for C23: the readout counts the cards of the month groups only.
filterChats_CountsGroupedCards(folder, term, rangeStart, rangeEnd, ignore) ==
    LET shown == [c \in CardIds |-> CardShown(Cards[c], folder, term, rangeStart, rangeEnd, ignore)]
        visibleCards == Cardinality({c \in CardIds : shown[c] /\ Cards[c].month \in MonthGroups})
    IN /\ cardDisplay' = shown
       /\ groupDisplay' = [m \in MonthGroups |-> MonthCount(shown, m) > 0]
       /\ groupCount' = [m \in MonthGroups |->
                            IF MonthCount(shown, m) > 0 THEN MonthCount(shown, m) ELSE groupCount[m]]
       /\ visibleCount' = visibleCards
       /\ emptyDisplay' = (visibleCards = 0)

\* One run of filterChats over the filter state given.
filterChats(folder, term, rangeStart, rangeEnd, ignore) ==
    LET shown == [c \in CardIds |-> CardShown(Cards[c], folder, term, rangeStart, rangeEnd, ignore)]
        visibleCards == Cardinality({c \in CardIds : shown[c]})
    IN /\ cardDisplay' = shown
       /\ groupDisplay' = [m \in MonthGroups |-> MonthCount(shown, m) > 0]
       /\ groupCount' = [m \in MonthGroups |->
                            IF MonthCount(shown, m) > 0 THEN MonthCount(shown, m) ELSE groupCount[m]]
       /\ visibleCount' = visibleCards
       /\ emptyDisplay' = (visibleCards = 0)

\* ------------------------------------------------------ Time Slider state
\* buckets[i]?.date for a JavaScript (0-based) index
BucketDate(bk, i) == IF 0 <= i /\ i < Len(bk) THEN Some(bk[i + 1].date) ELSE Null

\* Mutant for C10: the selection is left in drag order.
SelLow_DragOrder(ss, se) == Val(ss)

\* Math.min / Math.max of (selectionStart, selectionEnd ?? selectionStart)
SelLow(ss, se) == Min2(Val(ss), IF se = Null THEN Val(ss) ELSE Val(se))
SelHigh(ss, se) == Max2(Val(ss), IF se = Null THEN Val(ss) ELSE Val(se))

\* TimeSlider.getSelection(): null, or the dates of the two end buckets
getSelection(ss, se, bk) ==
    IF ss = Null THEN Null
    ELSE Some([startDate |-> BucketDate(bk, SelLow(ss, se)),
               endDate |-> BucketDate(bk, SelHigh(ss, se))])

\* The (startDate, endDate) that notifyRangeChange passes to the listener.
RangeArgs(ss, se, bk) ==
    IF ss = Null THEN [startDate |-> Null, endDate |-> Null]
    ELSE LET startDate == BucketDate(bk, SelLow(ss, se))
             endDate == BucketDate(bk, SelHigh(ss, se))
         IN [startDate |-> startDate,
             endDate |-> IF endDate # Null THEN Some(SetHoursEnd(Val(endDate))) ELSE Null]

\* Mutant for C24: the Explorer's listener is called whatever listener is held.
notifyRangeChange_CallsFirstListener(ss, se, bk, folder, caller) ==
    IF onRangeChangeCallback # "null"
    THEN LET args == RangeArgs(ss, se, bk)
         IN /\ pointer' = Null
            /\ calls' = <<args>>
            /\ dateRangeStart' = args.startDate
            /\ dateRangeEnd' = args.endDate
            /\ filterChats(folder, searchTerm, args.startDate, args.endDate, ignoreWarmup)
            /\ ran' = {caller, "notifyRangeChange", "filterChats"}
    ELSE /\ pointer' = Null
         /\ calls' = <<>>
         /\ ran' = {caller, "notifyRangeChange"}
         /\ UNCHANGED <<dateRangeStart, dateRangeEnd, domVars>>

\* notifyRangeChange: one call of the listener held, if one is held.  The
\* listener is "explorer" (explorer.js 93-97: it stores the range and runs
\* filterChats), "other" (a listener of another script, which leaves the
\* Explorer alone) or "null".  `folder` is the Explorer's current folder at
\* the time of the call, `caller` the routine that notifies.
notifyRangeChange(ss, se, bk, folder, caller) ==
    IF onRangeChangeCallback = "explorer"
    THEN LET args == RangeArgs(ss, se, bk)
         IN /\ pointer' = Null
            /\ calls' = <<args>>
            /\ dateRangeStart' = args.startDate
            /\ dateRangeEnd' = args.endDate
            /\ filterChats(folder, searchTerm, args.startDate, args.endDate, ignoreWarmup)
            /\ ran' = {caller, "notifyRangeChange", "filterChats"}
    ELSE /\ pointer' = Null
         /\ calls' = (IF onRangeChangeCallback # "null" THEN <<RangeArgs(ss, se, bk)>> ELSE <<>>)
         /\ ran' = {caller, "notifyRangeChange"}
         /\ UNCHANGED <<dateRangeStart, dateRangeEnd, domVars>>

\* buckets.findIndex(b => b.date.getTime() >= time), -1 when there is none
findIndex(bk, time) ==
    LET hits == {i \in 0..(Len(bk) - 1) : bk[i + 1].date >= time}
    IN IF hits = {} THEN 0 - 1 ELSE SetMin(hits)

\* The indices setSelection stores for a non-null startDate.
setSelectionStart(bk, startDate) ==
    LET i == findIndex(bk, Val(startDate)) IN IF i = 0 - 1 THEN 0 ELSE i
setSelectionEnd(bk, startDate, endDate) ==
    LET endTime == IF endDate # Null THEN Val(endDate) ELSE Val(startDate)
        i == findIndex(bk, endTime)
    IN IF i = 0 - 1 THEN Len(bk) - 1 ELSE i

\* Mutant for C14: the folder is compared without regard to case.
filteredData_IgnoringCase(folder) ==
    IF folder # <<>>
    THEN SelectSeq(conversationData, LAMBDA c : toLowerCase(c.project) = toLowerCase(folder))
    ELSE conversationData

\* window.conversationData restricted to a folder, as filterByFolder does
filteredData(folder) ==
    IF folder # <<>>
    THEN SelectSeq(conversationData, LAMBDA c : c.project = folder)
    ELSE conversationData

\* ------------------------------------------------- detail panel: selectChat
\* The chats of the page, by cache key "projectDir/chatId".  The data the
\* server returns for a chat is named by the chat's key.
ChatKeys == {"proj1/chat1", "proj1/chat2"}

\* What a selectChat step did: the part run (the call up to its first await,
\* the continuation after fetch, the continuation after response.json()),
\* the chat of that call, what came back, whether console.error was called
\* and the state of the promise selectChat returned.
NoChatStep == [kind |-> "none", key |-> "", updateUrl |-> FALSE, response |-> "none",
               logged |-> FALSE, settled |-> "none"]

RemoveAt(seq, i) == SubSeq(seq, 1, i - 1) \o SubSeq(seq, i + 1, Len(seq))

\* Mutant for C18: a response for a chat that is no longer selected is dropped.
renderChatDetail_OnlySelected(data) ==
    IF selectedChatId = Some(data)
    THEN /\ detailLoading' = FALSE
         /\ detailContent' = TRUE
         /\ rendered' = Some(data)
    ELSE UNCHANGED <<detailLoading, detailContent, rendered>>

\* renderChatDetail(data): the loading placeholder goes, the content shows data
renderChatDetail(data) ==
    /\ detailLoading' = FALSE
    /\ detailContent' = TRUE
    /\ rendered' = Some(data)

\* Mutant for C17: the loading placeholder stays.
showError_KeepsLoading ==
    /\ UNCHANGED detailLoading
    /\ detailEmpty' = TRUE
    /\ detailText' = "Failed to load chat"

\* the catch block's placeholder: loading hidden, "Failed to load chat" shown
showError ==
    /\ detailLoading' = FALSE
    /\ detailEmpty' = TRUE
    /\ detailText' = "Failed to load chat"

\* selectChat(projectDir, chatId, updateUrl) up to its first await, or to its
\* end when the chat is cached.
selectChatBody(key, updateUrl) ==
    /\ selectedChatId' = Some(key)
    /\ chatCalls' = chatCalls + 1
    /\ urlChat' = (IF updateUrl THEN Some(key) ELSE urlChat)
    /\ historyLen' = (IF updateUrl THEN historyLen + 1 ELSE historyLen)
    /\ detailEmpty' = FALSE
    /\ IF chatCache[key] # Null
       THEN /\ renderChatDetail(Val(chatCache[key]))
            /\ chatStep' = [kind |-> "call", key |-> key, updateUrl |-> updateUrl,
                            response |-> "cached", logged |-> FALSE, settled |-> "fulfilled"]
            /\ UNCHANGED <<pending, requestsSent>>
       ELSE /\ detailContent' = FALSE
            /\ detailLoading' = TRUE
            /\ pending' = Append(pending, [key |-> key, stage |-> "fetch"])
            /\ requestsSent' = requestsSent + 1
            /\ chatStep' = [kind |-> "call", key |-> key, updateUrl |-> updateUrl,
                            response |-> "none", logged |-> FALSE, settled |-> "pending"]
            /\ UNCHANGED rendered
    /\ UNCHANGED <<chatCache, detailText, fetchedOk>>

notChat == <<envVars, explorerVars, sliderVars, calls, gesture, pointer>>

\* A click on a chat card of the detail page: selectChat(projectDir, chatId).
selectChat(key, updateUrl) ==
    /\ exInit /\ tsInit
    /\ variant = "detail"
    /\ chatCalls < MaxChatCalls
    /\ selectChatBody(key, updateUrl)
    /\ ran' = {"selectChat"}
    /\ UNCHANGED notChat

\* The catch block: console.error, the error placeholder; the promise of the
\* call is fulfilled.
catchError(i, response) ==
    /\ showError
    /\ pending' = RemoveAt(pending, i)
    /\ chatStep' = [kind |-> "catch", key |-> pending[i].key, updateUrl |-> FALSE,
                    response |-> response, logged |-> TRUE, settled |-> "fulfilled"]
    /\ UNCHANGED <<selectedChatId, chatCache, detailContent, rendered, urlChat, historyLen,
                   requestsSent, chatCalls, fetchedOk>>

\* `await fetch(...)` of the i-th call in flight settles: a response with
\* response.ok, a response without, or a rejection (network error).
FetchSettles(i, response) ==
    /\ i \in DOMAIN pending
    /\ pending[i].stage = "fetch"
    /\ IF response = "ok"
       THEN /\ pending' = [pending EXCEPT ![i].stage = "json"]
            /\ chatStep' = [kind |-> "response", key |-> pending[i].key, updateUrl |-> FALSE,
                            response |-> response, logged |-> FALSE, settled |-> "pending"]
            /\ UNCHANGED <<selectedChatId, chatCache, detailEmpty, detailContent, detailLoading,
                           detailText, rendered, urlChat, historyLen, requestsSent, chatCalls,
                           fetchedOk>>
       ELSE catchError(i, response)
    /\ ran' = {"selectChat"}
    /\ UNCHANGED notChat

\* `await response.json()` of the i-th call in flight settles: the data, or a
\* rejection (the body is not JSON).  The data is stored under the chat
\* selected NOW (chatCache[selectedChatId] = data) and rendered.
BodySettles(i, parsed) ==
    /\ i \in DOMAIN pending
    /\ pending[i].stage = "json"
    /\ IF parsed
       THEN /\ chatCache' = [chatCache EXCEPT ![Val(selectedChatId)] = Some(pending[i].key)]
            /\ fetchedOk' = fetchedOk \cup {pending[i].key}
            /\ renderChatDetail(pending[i].key)
            /\ pending' = RemoveAt(pending, i)
            /\ chatStep' = [kind |-> "body", key |-> pending[i].key, updateUrl |-> FALSE,
                            response |-> "parsed", logged |-> FALSE, settled |-> "fulfilled"]
            /\ UNCHANGED <<selectedChatId, detailEmpty, detailText, urlChat, historyLen,
                           requestsSent, chatCalls>>
       ELSE catchError(i, "unparseable")
    /\ ran' = {"selectChat"}
    /\ UNCHANGED notChat

\* ------------------------------------------------------------------- Init
\* The state when the scripts have been evaluated and neither init has run.
InitWith(zones, datasets, variants, storages, urlFolders, urlChats) ==
    /\ tz \in zones
    /\ conversationData \in datasets
    /\ variant \in variants
    /\ storage \in storages
    /\ urlFolder \in urlFolders
    /\ pushed = <<>>
    /\ urlChat \in urlChats
    /\ selectedChatId = Null
    /\ chatCache = [k \in ChatKeys |-> Null]
    /\ detailEmpty = TRUE
    /\ detailContent = FALSE
    /\ detailLoading = FALSE
    /\ detailText = "Select a chat"
    /\ rendered = Null
    /\ historyLen = 0
    /\ pending = <<>>
    /\ requestsSent = 0
    /\ chatCalls = 0
    /\ fetchedOk = {}
    /\ chatStep = NoChatStep
    /\ currentFolder = <<>>
    /\ searchTerm = <<>>
    /\ dateRangeStart = Null
    /\ dateRangeEnd = Null
    /\ ignoreWarmup = TRUE
    /\ searchBox = <<>>
    /\ timerPending = FALSE
    /\ timerLeft = 0
    /\ burst = Null
    /\ exInit = FALSE
    /\ cardDisplay = [c \in CardIds |-> TRUE]
    /\ groupDisplay = [m \in MonthGroups |-> TRUE]
    /\ groupCount = [m \in MonthGroups |-> Cardinality({c \in CardIds : Cards[c].month = m})]
    /\ visibleCount = Cardinality(CardIds)
    /\ emptyDisplay = FALSE
    /\ currentMetric = "conversations"
    /\ buckets = <<>>
    /\ tsFolder = <<>>
    /\ selectionStart = Null
    /\ selectionEnd = Null
    /\ isDragging = FALSE
    /\ dragStartIndex = Null
    /\ onRangeChangeCallback = "null"
    /\ tsInit = FALSE
    /\ ran = {}
    /\ calls = <<>>
    /\ pointer = Null
    /\ gesture = <<>>

\* ------------------------------------------------------- Time Slider init
SliderInit ==
    /\ ~tsInit
    /\ tsInit' = TRUE
    /\ buckets' = processData(conversationData)
    /\ ran' = {"init", "processData"}
    /\ pointer' = Null
    /\ calls' = <<>>
    /\ UNCHANGED <<envVars, chatVars, explorerVars, currentMetric, tsFolder, selectionStart,
                   selectionEnd, isDragging, dragStartIndex, onRangeChangeCallback, gesture>>

\* ---------------------------------------------------------- Explorer init
\* init: selectFolder(folderParam, false) when the URL names a folder (the
\* listener is not registered yet, so filterByFolder notifies nobody); on the
\* list page restoreNavigationContext; onRangeChange(listener); on the list
\* page setSelection of a restored range, on the detail page filterChats.
ExplorerInit ==
    /\ ~exInit
    /\ exInit' = TRUE
    /\ LET hasFolder == urlFolder # <<>>
           folder == IF hasFolder THEN urlFolder ELSE currentFolder
           bk == IF hasFolder THEN processData(filteredData(urlFolder)) ELSE buckets
           restores == variant = "list" /\ storage.kind = "json" /\ storage.start # Null
           rangeStart == IF restores THEN storage.start ELSE Null
           rangeEnd == IF restores THEN storage.end ELSE Null
       IN /\ currentFolder' = folder
          /\ tsFolder' = (IF hasFolder THEN urlFolder ELSE tsFolder)
          /\ buckets' = bk
          /\ dateRangeStart' = rangeStart
          /\ dateRangeEnd' = rangeEnd
          \* removeItem runs under `if (contextStr)`: not for the empty string
          /\ storage' = (IF variant = "list" /\ storage.kind \notin {"none", "empty"}
                         THEN NoContext ELSE storage)
          /\ onRangeChangeCallback' = "explorer"
          /\ IF restores
             THEN /\ selectionStart' = Some(setSelectionStart(bk, rangeStart))
                  /\ selectionEnd' = Some(setSelectionEnd(bk, rangeStart, rangeEnd))
             ELSE /\ selectionStart' = (IF hasFolder THEN Null ELSE selectionStart)
                  /\ selectionEnd' = (IF hasFolder THEN Null ELSE selectionEnd)
          /\ IF variant = "detail"
             THEN filterChats(folder, searchTerm, Null, Null, ignoreWarmup)
             ELSE IF hasFolder
                  THEN filterChats(folder, searchTerm, Null, Null, ignoreWarmup)
                  ELSE UNCHANGED domVars
          \* a restored range is stored after the last filterChats of this step
          /\ ran' = (IF hasFolder THEN {"filterByFolder", "processData", "notifyRangeChange"} ELSE {})
                    \cup (IF (hasFolder \/ variant = "detail") /\ ~restores
                          THEN {"filterChats"} ELSE {})
                    \cup (IF restores THEN {"setSelection"} ELSE {})
                    \cup (IF variant = "list" /\ storage.kind = "malformed"
                          THEN {"console.error"} ELSE {})
                    \cup (IF variant = "detail" /\ urlChat # Null THEN {"selectChat"} ELSE {})
    \* init's selectFolder notifies a listener registered before init
    /\ pointer' = Null
    /\ calls' = (IF urlFolder # <<>> /\ onRangeChangeCallback # "null"
                 THEN <<[startDate |-> Null, endDate |-> Null]>> ELSE <<>>)
    /\ gesture' = <<>>
    \* detail page: selectChat(projectDir, chatId, false) for the URL's chat
    /\ IF variant = "detail" /\ urlChat # Null
       THEN selectChatBody(Val(urlChat), FALSE)
       ELSE UNCHANGED chatVars
    /\ pushed' = <<>>
    /\ UNCHANGED <<envVars, searchTerm, ignoreWarmup, searchVars, urlFolder,
                   currentMetric, isDragging, dragStartIndex, tsInit>>

pageReady == exInit /\ tsInit

\* Mutant for C22: the URL pushed holds the folder parameter alone.
folderUrl_FolderOnly(path) == [folder |-> path, chat |-> Null]

\* The URL selectFolder pushes: new URL(window.location) with the folder
\* parameter set to the path or, for the empty path, deleted (a URL without
\* the parameter has folder <<>>); its other parameters are the page's.
folderUrl(path) == [folder |-> path, chat |-> urlChat]

\* Mutant for C11: the folder changes and the Explorer keeps its date range.
selectFolder_KeepsRange(path) ==
    /\ pageReady
    /\ currentFolder' = path
    /\ tsFolder' = path
    /\ selectionStart' = Null
    /\ selectionEnd' = Null
    /\ buckets' = processData(filteredData(path))
    /\ pointer' = Null
    /\ calls' = <<>>
    /\ filterChats(path, searchTerm, dateRangeStart, dateRangeEnd, ignoreWarmup)
    /\ ran' = {"selectFolder", "filterByFolder", "processData", "filterChats"}
    /\ gesture' = <<>>
    /\ urlFolder' = path
    /\ pushed' = <<folderUrl(path)>>
    /\ UNCHANGED <<envVars, chatVars, searchTerm, ignoreWarmup, searchVars, exInit, storage,
                   dateRangeStart, dateRangeEnd,
                   currentMetric, isDragging, dragStartIndex, onRangeChangeCallback, tsInit>>

\* ------------------------------------------------------------ selectFolder
\* window.selectFolder(path): with filterByFolder of the Time Slider, whose
\* notification runs the listener, and the final filterChats.
selectFolder(path) ==
    /\ pageReady
    /\ currentFolder' = path
    /\ dateRangeStart' = Null
    /\ dateRangeEnd' = Null
    /\ tsFolder' = path
    /\ selectionStart' = Null
    /\ selectionEnd' = Null
    /\ buckets' = processData(filteredData(path))
    /\ pointer' = Null
    /\ calls' = (IF onRangeChangeCallback # "null"
                 THEN <<[startDate |-> Null, endDate |-> Null]>> ELSE <<>>)
    /\ filterChats(path, searchTerm, Null, Null, ignoreWarmup)
    /\ ran' = {"selectFolder", "filterByFolder", "processData", "notifyRangeChange", "filterChats"}
    /\ gesture' = <<>>
    \* updateUrl is true: history.pushState of the URL with the folder set
    /\ urlFolder' = path
    /\ pushed' = <<folderUrl(path)>>
    /\ UNCHANGED <<envVars, chatVars, searchTerm, ignoreWarmup, searchVars, exInit, storage,
                   currentMetric, isDragging, dragStartIndex, onRangeChangeCallback, tsInit>>

\* ------------------------------------------------------------------ search
\* Mutant for C32: an empty box leaves the term as it was.
handleSearch_KeepsTermWhenEmpty(value, caller) ==
    LET term == IF value = <<>> THEN searchTerm ELSE toLowerCase(value)
    IN /\ searchTerm' = term
       /\ filterChats(currentFolder, term, dateRangeStart, dateRangeEnd, ignoreWarmup)
       /\ ran' = {caller, "handleSearch", "filterChats"}
       /\ pointer' = Null
       /\ calls' = <<>>
       /\ UNCHANGED <<envVars, chatVars, currentFolder, dateRangeStart, dateRangeEnd, ignoreWarmup,
                      exInit, storage, urlVars, sliderVars, gesture>>

\* handleSearch: searchTerm = searchInput.value.toLowerCase(); filterChats()
\* (`caller`: debounce's `later`, or the Escape listener)
handleSearch(value, caller) ==
    /\ searchTerm' = toLowerCase(value)
    /\ filterChats(currentFolder, toLowerCase(value), dateRangeStart, dateRangeEnd, ignoreWarmup)
    /\ ran' = {caller, "handleSearch", "filterChats"}
    /\ pointer' = Null
    /\ calls' = <<>>
    /\ UNCHANGED <<envVars, chatVars, currentFolder, dateRangeStart, dateRangeEnd, ignoreWarmup,
                   exInit, storage, urlVars, sliderVars, gesture>>

\* Mutant for C20: an input event does not restart a timer that is running.
SearchInput_NoRestart(value) ==
    /\ pageReady
    /\ searchBox' = value
    /\ timerPending' = TRUE
    /\ timerLeft' = (IF timerPending THEN timerLeft ELSE DebounceWait)
    /\ burst' = Some(0)
    /\ ran' = {}
    /\ pointer' = Null
    /\ calls' = <<>>
    /\ UNCHANGED <<envVars, chatVars, filterVars, domVars, exInit, storage, urlVars, sliderVars, gesture>>

\* An input event: the box holds `value`, the debounced call is (re)armed:
\* clearTimeout(timeout); timeout = setTimeout(later, 200).
SearchInput(value) ==
    /\ pageReady
    /\ searchBox' = value
    /\ timerPending' = TRUE
    /\ timerLeft' = DebounceWait
    /\ burst' = Some(0)
    /\ ran' = {}
    /\ pointer' = Null
    /\ calls' = <<>>
    /\ UNCHANGED <<envVars, chatVars, filterVars, domVars, exInit, storage, urlVars, sliderVars, gesture>>

\* The debounce timer fires: handleSearch on the value the box holds now.
DebounceFire ==
    /\ timerPending
    /\ timerLeft = 0
    /\ timerPending' = FALSE
    /\ burst' = Null
    /\ UNCHANGED <<searchBox, timerLeft>>
    /\ handleSearch(searchBox, "later")

\* 100 ms pass while the debounce timer runs; a timer that is due fires
\* before more time passes.
Tick ==
    /\ timerPending
    /\ timerLeft > 0
    /\ timerLeft' = timerLeft - 1
    /\ burst' = (IF burst = Null THEN Null ELSE Some(Val(burst) + 1))
    /\ ran' = {}
    /\ pointer' = Null
    /\ calls' = <<>>
    /\ UNCHANGED <<envVars, chatVars, filterVars, domVars, exInit, storage, urlVars, sliderVars, gesture,
                   searchBox, timerPending>>

\* keydown Escape: the box is emptied and handleSearch runs at once.
Escape ==
    /\ pageReady
    /\ searchBox' = <<>>
    /\ UNCHANGED <<timerPending, timerLeft, burst>>
    /\ handleSearch(<<>>, "Escape")

\* window.toggleWarmupFilter (detail page): ignoreWarmup = checkbox.checked
toggleWarmupFilter(checked) ==
    /\ pageReady
    /\ variant = "detail"
    /\ ignoreWarmup' = checked
    /\ filterChats(currentFolder, searchTerm, dateRangeStart, dateRangeEnd, checked)
    /\ ran' = {"toggleWarmupFilter", "filterChats"}
    /\ pointer' = Null
    /\ calls' = <<>>
    /\ UNCHANGED <<envVars, chatVars, currentFolder, searchTerm, dateRangeStart, dateRangeEnd,
                   searchVars, exInit, storage, urlVars, sliderVars, gesture>>

\* ---------------------------------------------------- selection gestures
\* The bars rendered: one .histogram-bar-container per bucket, data-index i.
Bars == {Some(i) : i \in 0..(Len(buckets) - 1)}
\* What an event can be over: a bar, or no bar (getIndexFromTarget gives null).
\* Of a long histogram the events tried are over its first two bars and its last.
Targets == {b \in Bars : Val(b) <= 1 \/ Val(b) = Len(buckets) - 1} \cup {Null}

unchangedByGesture == <<envVars, chatVars, currentFolder, searchTerm, ignoreWarmup, searchVars, exInit,
                        storage, urlVars, currentMetric, buckets, tsFolder,
                        onRangeChangeCallback, tsInit>>

\* handleMouseDown / handleTouchStart
startDrag(index) ==
    /\ pageReady
    /\ IF index = Null
       THEN UNCHANGED <<isDragging, dragStartIndex, selectionStart, selectionEnd, gesture>>
       ELSE /\ isDragging' = TRUE
            /\ dragStartIndex' = index
            /\ selectionStart' = index
            /\ selectionEnd' = index
            /\ gesture' = <<Val(index), Val(index)>>
    /\ ran' = {"handleMouseDown"}
    /\ pointer' = index
    /\ calls' = <<>>
    /\ UNCHANGED <<unchangedByGesture, dateRangeStart, dateRangeEnd, domVars>>

\* Mutant for C33: the start of the selection follows the pointer.
moveDrag_MovesAnchor(index) ==
    /\ pageReady
    /\ IF ~isDragging \/ index = Null
       THEN UNCHANGED <<selectionStart, gesture>>
       ELSE /\ selectionStart' = index
            /\ gesture' = (IF gesture = <<>> THEN <<>> ELSE <<Val(index), gesture[2]>>)
    /\ ran' = {"handleMouseMove"}
    /\ pointer' = (IF isDragging THEN index ELSE Null)
    /\ calls' = <<>>
    /\ UNCHANGED <<unchangedByGesture, dateRangeStart, dateRangeEnd, domVars,
                   isDragging, dragStartIndex, selectionEnd>>

\* handleMouseMove / handleTouchMove
moveDrag(index) ==
    /\ pageReady
    /\ IF ~isDragging \/ index = Null
       THEN UNCHANGED <<selectionEnd, gesture>>
       ELSE /\ selectionEnd' = index
            /\ gesture' = (IF gesture = <<>> THEN <<>> ELSE <<gesture[1], Val(index)>>)
    /\ ran' = {"handleMouseMove"}
    \* the handler returns before looking at the target when no drag is on
    /\ pointer' = (IF isDragging THEN index ELSE Null)
    /\ calls' = <<>>
    /\ UNCHANGED <<unchangedByGesture, dateRangeStart, dateRangeEnd, domVars,
                   isDragging, dragStartIndex, selectionStart>>

\* handleMouseUp (mouseup, mouseleave) / handleTouchEnd
endDrag ==
    /\ pageReady
    /\ IF ~isDragging
       THEN /\ ran' = {"handleMouseUp"}
            /\ pointer' = Null
            /\ calls' = <<>>
            /\ UNCHANGED <<isDragging, selectionStart, selectionEnd, gesture,
                           dateRangeStart, dateRangeEnd, domVars>>
       ELSE /\ isDragging' = FALSE
            /\ gesture' = <<>>
            /\ IF selectionStart # Null
               THEN LET start == SelLow(selectionStart, selectionEnd)
                        end == SelHigh(selectionStart, selectionEnd)
                    IN /\ selectionStart' = Some(start)
                       /\ selectionEnd' = Some(end)
                       /\ notifyRangeChange(Some(start), Some(end), buckets, currentFolder, "handleMouseUp")
               ELSE /\ ran' = {"handleMouseUp"}
                    /\ pointer' = Null
                    /\ calls' = <<>>
                    /\ UNCHANGED <<selectionStart, selectionEnd,
                                   dateRangeStart, dateRangeEnd, domVars>>
    /\ UNCHANGED <<unchangedByGesture, dragStartIndex>>

handleMouseDown(index) == startDrag(index)
handleMouseMove(index) == moveDrag(index)
handleMouseUp == endDrag
handleMouseLeave == endDrag
handleTouchStart(index) == startDrag(index)
handleTouchMove(index) == moveDrag(index)
handleTouchEnd == endDrag

\* Mutant for C13: the end of the selection is left as it was.
clearSelectionBody_KeepsEnd ==
    /\ selectionStart' = Null
    /\ UNCHANGED selectionEnd
    /\ notifyRangeChange(Null, Null, buckets, currentFolder, "clearSelection")
    /\ gesture' = <<>>
    /\ UNCHANGED <<unchangedByGesture, isDragging, dragStartIndex>>

\* ------------------------------------------- clearSelection, setSelection
clearSelectionBody ==
    /\ selectionStart' = Null
    /\ selectionEnd' = Null
    /\ notifyRangeChange(Null, Null, buckets, currentFolder, "clearSelection")
    /\ gesture' = <<>>
    /\ UNCHANGED <<unchangedByGesture, isDragging, dragStartIndex>>

\* click on the clear-range button, or TimeSlider.clearSelection()
clearSelection ==
    /\ pageReady
    /\ clearSelectionBody

\* TimeSlider.setSelection(startDate, endDate)
setSelection(startDate, endDate) ==
    /\ pageReady
    /\ IF startDate = Null
       THEN clearSelectionBody
       ELSE /\ selectionStart' = Some(setSelectionStart(buckets, startDate))
            /\ selectionEnd' = Some(setSelectionEnd(buckets, startDate, endDate))
            /\ ran' = {"setSelection"}
            /\ pointer' = Null
            /\ calls' = <<>>
            /\ gesture' = <<>>
            /\ UNCHANGED <<unchangedByGesture, isDragging, dragStartIndex,
                           dateRangeStart, dateRangeEnd, domVars>>

\* TimeSlider.onRangeChange(callback): the callback replaces the one held
onRangeChange(callback) ==
    /\ onRangeChangeCallback' = callback
    /\ ran' = {"onRangeChange"}
    /\ pointer' = Null
    /\ calls' = <<>>
    /\ UNCHANGED <<envVars, explorerVars, chatVars, currentMetric, buckets, tsFolder, selectionStart,
                   selectionEnd, isDragging, dragStartIndex, tsInit, gesture>>

\* click on a chat link of the list page: saveNavigationContext stores the
\* folder, the scroll position and the date range (a Date is stored as its
\* ISO string, which new Date reads back to the same instant; null as null)
saveNavigationContext ==
    /\ pageReady
    /\ variant = "list"
    /\ storage' = Context(dateRangeStart, dateRangeEnd)
    /\ ran' = {"saveNavigationContext"}
    /\ pointer' = Null
    /\ calls' = <<>>
    /\ UNCHANGED <<envVars, filterVars, searchVars, domVars, exInit, urlVars, sliderVars,
                   chatVars, gesture>>

\* The page is loaded again (the browser returns from the chat's page, or
\* reloads): the scripts start afresh; sessionStorage and the URL remain.
pageLoad ==
    /\ pageReady
    /\ pushed' = <<>>
    /\ selectedChatId' = Null
    /\ chatCache' = [k \in ChatKeys |-> Null]
    /\ detailEmpty' = TRUE
    /\ detailContent' = FALSE
    /\ detailLoading' = FALSE
    /\ detailText' = "Select a chat"
    /\ rendered' = Null
    /\ historyLen' = 0
    /\ pending' = <<>>
    /\ requestsSent' = 0
    /\ chatCalls' = 0
    /\ fetchedOk' = {}
    /\ chatStep' = NoChatStep
    /\ currentFolder' = <<>>
    /\ searchTerm' = <<>>
    /\ dateRangeStart' = Null
    /\ dateRangeEnd' = Null
    /\ ignoreWarmup' = TRUE
    /\ searchBox' = <<>>
    /\ timerPending' = FALSE
    /\ timerLeft' = 0
    /\ burst' = Null
    /\ exInit' = FALSE
    /\ cardDisplay' = [c \in CardIds |-> TRUE]
    /\ groupDisplay' = [m \in MonthGroups |-> TRUE]
    /\ groupCount' = [m \in MonthGroups |-> Cardinality({c \in CardIds : Cards[c].month = m})]
    /\ visibleCount' = Cardinality(CardIds)
    /\ emptyDisplay' = FALSE
    /\ currentMetric' = "conversations"
    /\ buckets' = <<>>
    /\ tsFolder' = <<>>
    /\ selectionStart' = Null
    /\ selectionEnd' = Null
    /\ isDragging' = FALSE
    /\ dragStartIndex' = Null
    /\ onRangeChangeCallback' = "null"
    /\ tsInit' = FALSE
    /\ ran' = {}
    /\ pointer' = Null
    /\ calls' = <<>>
    /\ gesture' = <<>>
    /\ UNCHANGED <<envVars, storage, urlFolder, urlChat>>

\* Mutant for C34: switching the metric drops the selection.
toggleMetric_DropsSelection ==
    /\ pageReady
    /\ currentMetric' = (IF currentMetric = "conversations" THEN "messages" ELSE "conversations")
    /\ selectionStart' = Null
    /\ selectionEnd' = Null
    /\ ran' = {"toggleMetric"}
    /\ pointer' = Null
    /\ calls' = <<>>
    /\ UNCHANGED <<envVars, chatVars, explorerVars, buckets, tsFolder,
                   isDragging, dragStartIndex, onRangeChangeCallback, tsInit, gesture>>

\* click on the metric toggle
toggleMetric ==
    /\ pageReady
    /\ currentMetric' = (IF currentMetric = "conversations" THEN "messages" ELSE "conversations")
    /\ ran' = {"toggleMetric"}
    /\ pointer' = Null
    /\ calls' = <<>>
    /\ UNCHANGED <<envVars, chatVars, explorerVars, buckets, tsFolder, selectionStart, selectionEnd,
                   isDragging, dragStartIndex, onRangeChangeCallback, tsInit, gesture>>

\* ------------------------------------------------------------ input sets
\* Browser time zones: UTC and one zone on either side of it.
TimeZones == {0 - 1, 0, 1}

\* Search-box values: every text of at most MaxTermLen characters.
Alphabet == {"a", "A", "b"}
Terms == UNION {[1..k -> Alphabet] : k \in 0..MaxTermLen}

\* Conversation summaries for processData: dates around the 60-day threshold
\* (day 8 to day 68 is exactly 60 days), the 69-day pair 2024-01-01 /
\* 2024-03-10 of the spec's scenario, and a date that does not parse.
PoolConvs == {[project |-> <<"a">>, date |-> d, messages |-> 5] :
                        d \in {Iso(8, 0), Iso(8, TicksPerDay - 1), Iso(68, 0), Iso(68, 1)}}
             \cup {[project |-> <<"b">>, date |-> d, messages |-> 2] :
                        d \in {Iso(10, 1), Iso(77, 0), NotADate}}
Datasets == UNION {[1..k -> PoolConvs] : k \in 0..MaxConvs}

\* The scenario of the spec: {a, 2024-01-01, 5} and {b, 2024-03-10, 2}.
DataScenario == <<[project |-> <<"a">>, date |-> Iso(8, 0), messages |-> 5],
                  [project |-> <<"b">>, date |-> Iso(77, 0), messages |-> 2]>>

\* Dates passed to setSelection: none, before, inside and after the data.
SelectionDates == {Null, Some(Iso(7, 1).tick), Some(Iso(9, 1).tick), Some(Iso(80, 0).tick)}

\* A saved context: a two-day range, a range with no end, no range.
Contexts == {NoContext, Malformed,
             Context(Some(Iso(8, 0).tick), Some(Iso(9, TicksPerDay - 1).tick)),
             Context(Some(Iso(9, 0).tick), Null),
             Context(Null, Null)}

\* --------------------------------------------- processData: specification
InitBuckets == InitWith(TimeZones, Datasets, {"list"}, {NoContext}, {<<>>}, {Null})
NextBuckets ==
    \/ SliderInit
    \/ ExplorerInit
    \/ \E path \in Folders : selectFolder(path)
SpecBuckets == InitBuckets /\ [][NextBuckets]_vars

\* ---------------------------------------------- Time Slider: specification
InitSlider == InitWith(TimeZones, {DataCards, DataScenario}, {"list"},
                       {NoContext, Context(Some(Iso(9, 0).tick), Some(Iso(9, TicksPerDay - 1).tick))},
                       {<<>>}, {Null})
NextSlider ==
    \/ SliderInit
    \/ ExplorerInit
    \/ \E path \in Folders : selectFolder(path)
    \/ \E index \in Targets : handleMouseDown(index)
    \/ \E index \in Targets : handleMouseMove(index)
    \/ handleMouseUp
    \/ handleMouseLeave
    \/ \E index \in Targets : handleTouchStart(index)
    \/ \E index \in Targets : handleTouchMove(index)
    \/ handleTouchEnd
    \/ clearSelection
    \/ \E startDate, endDate \in SelectionDates : setSelection(startDate, endDate)
SpecSlider == InitSlider /\ [][NextSlider]_vars

\* ------------------------------------------------- Explorer: specification
\* The filters together: folder, warmup, and date ranges from the histogram
\* and from a restored context.
InitExplorer == InitWith({0}, {SubSeq(DataCards, 2, 5)}, {"list", "detail"}, Contexts,
                         {<<>>, <<"B">>}, {Null})
NextExplorer ==
    \/ SliderInit
    \/ ExplorerInit
    \/ \E path \in {<<>>, <<"a">>, <<"b">>} : selectFolder(path)
    \/ SearchInput(<<"A">>)
    \/ Tick
    \/ DebounceFire
    \/ Escape
    \/ \E checked \in BOOLEAN : toggleWarmupFilter(checked)
    \/ \E index \in Targets : handleMouseDown(index)
    \/ handleMouseUp
    \/ clearSelection
SpecExplorer == InitExplorer /\ [][NextExplorer]_vars

\* --------------------------------------------------- search: specification
InitSearch == InitWith({0}, {DataCards}, {"list", "detail"}, {NoContext}, {<<>>}, {Null})
NextSearch ==
    \/ SliderInit
    \/ ExplorerInit
    \/ \E path \in {<<>>, <<"B">>} : selectFolder(path)
    \/ \E value \in Terms : SearchInput(value)
    \/ Tick
    \/ DebounceFire
    \/ Escape
SpecSearch == InitSearch /\ [][NextSearch]_vars

\* ---------------------------------------------- detail panel: specification
\* The HTTP outcomes of a fetch, and the URLs the page is opened with.
Responses == {"ok", "notOk", "networkError"}
InitChat == InitWith({0}, {DataCards}, {"detail"}, {NoContext}, {<<>>},
                     {Null, Some("proj1/chat1")})
NextChat ==
    \/ SliderInit
    \/ ExplorerInit
    \/ \E key \in ChatKeys, updateUrl \in BOOLEAN : selectChat(key, updateUrl)
    \/ \E i \in 1..MaxChatCalls, response \in Responses : FetchSettles(i, response)
    \/ \E i \in 1..MaxChatCalls, parsed \in BOOLEAN : BodySettles(i, parsed)
SpecChat == InitChat /\ [][NextChat]_vars

\* ------------------------------------- page load and the URL: specification
\* Either page is opened with or without a folder and a chat in its URL and
\* with any stored context; folders and (detail page) chats are then selected.
InitPage == InitWith({0}, {DataCards}, {"list", "detail"}, Contexts \cup {EmptyContext},
                     {<<>>, <<"a">>}, {Null, Some("proj1/chat1")})
NextPage ==
    \/ SliderInit
    \/ ExplorerInit
    \/ \E path \in {<<>>, <<"a">>, <<"B">>} : selectFolder(path)
    \/ \E key \in ChatKeys : selectChat(key, TRUE)
SpecPage == InitPage /\ [][NextPage]_vars

\* -------------------------------------- listener registration: specification
\* Scripts register listeners (or none) at any time, the Explorer's init among
\* them, while ranges are selected and cleared and folders are selected.
Listeners == {"null", "explorer", "other"}
InitListener == InitWith({0}, {DataCards}, {"list"}, {NoContext}, {<<>>, <<"a">>}, {Null})
NextListener ==
    \/ SliderInit
    \/ ExplorerInit
    \/ \E callback \in Listeners : onRangeChange(callback)
    \/ \E path \in {<<>>, <<"a">>} : selectFolder(path)
    \/ \E index \in Targets : handleMouseDown(index)
    \/ \E index \in Targets : handleMouseMove(index)
    \/ handleMouseUp
    \/ clearSelection
SpecListener == InitListener /\ [][NextListener]_vars

\* ----------------------------------- leaving and returning: specification
\* Ranges are selected on the list page (daily buckets: DataCards, weekly:
\* DataScenario); a chat link is clicked, which saves the context; the page
\* is loaded again and restores it.
InitReturn == InitWith(TimeZones, {DataCards, DataScenario}, {"list"}, {NoContext}, {<<>>}, {Null})
NextReturn ==
    \/ SliderInit
    \/ ExplorerInit
    \/ \E index \in Targets : handleMouseDown(index)
    \/ \E index \in Targets : handleMouseMove(index)
    \/ handleMouseUp
    \/ clearSelection
    \/ saveNavigationContext
    \/ pageLoad
SpecReturn == InitReturn /\ [][NextReturn]_vars

\* ------------------------------------------- all the filters: specification
\* Folders are selected, a term is typed and cleared, ranges are selected and
\* cleared, the warmup exclusion and the histogram's metric are toggled.
InitFilters == InitWith({0}, {DataCards}, {"list", "detail"}, {NoContext}, {<<>>}, {Null})
NextFilters ==
    \/ SliderInit
    \/ ExplorerInit
    \/ \E path \in {<<>>, <<"a">>} : selectFolder(path)
    \/ SearchInput(<<"A">>)
    \/ Tick
    \/ DebounceFire
    \/ Escape
    \/ \E checked \in BOOLEAN : toggleWarmupFilter(checked)
    \/ \E index \in Targets : handleMouseDown(index)
    \/ handleMouseUp
    \/ clearSelection
    \/ toggleMetric
SpecFilters == InitFilters /\ [][NextFilters]_vars

\* ==================================================================== claims
\* Text as the claims speak of it: lower-casing, and "needle is a substring of
\* hay" as hay = before . needle . after.
Lower(text) == [i \in DOMAIN text |-> LowerChar(text[i])]
IsSubstring(needle, hay) ==
    \E i \in 0..Len(hay) : \E j \in i..Len(hay) : SubSeq(hay, i + 1, j) = needle
RangeActive == dateRangeStart # Null \/ dateRangeEnd # Null
Parseable(c) == Cards[c].date.iso
FolderPasses(c) == currentFolder = <<>> \/ Cards[c].project = currentFolder
WarmupPasses(c) == variant = "detail" /\ ignoreWarmup => ~Cards[c].warmup
TextPasses(c, v) ==
    \/ v = <<>>
    \/ IsSubstring(Lower(v), Lower(Cards[c].title))
    \/ IsSubstring(Lower(v), Lower(Cards[c].searchable))
    \/ IsSubstring(Lower(v), Lower(Cards[c].project))
InRange(c) ==
    /\ dateRangeStart = Null \/ Cards[c].date.tick >= Val(dateRangeStart)
    /\ dateRangeEnd = Null \/ Cards[c].date.tick <= Val(dateRangeEnd)
\* The date test as filterChats applies it: none without a range, none to a
\* card whose date does not parse (see C4).
DatePasses(c) == RangeActive /\ Parseable(c) => InRange(c)
VisibleIn(m) == {c \in CardIds : cardDisplay[c] /\ Cards[c].month = m}

\* C1: after any call of filterChats a card is visible if and only if it
\* passes every active predicate: the folder predicate (no active folder, or
\* the card's project is exactly the active folder), the search predicate, the
\* date-range predicate and, on the detail page, the warmup predicate.
C1_VisibleIffAllPredicatesPass ==
    "filterChats" \in ran =>
        \A c \in CardIds :
            cardDisplay[c] <=>
                /\ FolderPasses(c)
                /\ TextPasses(c, searchTerm)
                /\ DatePasses(c)
                /\ WarmupPasses(c)

\* C1 witness: filterChats ran with a folder, a search term and a date range
\* all active; one card passes them all, others fail the folder, the term or
\* the range.
C1_Witness ==
    /\ "filterChats" \in ran
    /\ currentFolder = <<"a">>
    /\ searchTerm = <<"a">>
    /\ RangeActive
    /\ cardDisplay[2]
    /\ ~cardDisplay[1]
    /\ ~cardDisplay[4]

\* C2: after handleSearch on the box value v, a card passes the text predicate
\* if and only if v is empty or lower-case(v) is a substring of the lower-cased
\* title, searchable blob or project name (any one suffices); a card that the
\* other predicates let through is therefore visible exactly when it does, and
\* the stored term is lower-case(v).
C2_SearchIsCaseInsensitiveSubstring ==
    "handleSearch" \in ran =>
        /\ searchTerm = Lower(searchBox)
        /\ \A c \in CardIds :
               FolderPasses(c) /\ WarmupPasses(c) /\ ~RangeActive =>
                   (cardDisplay[c] <=> TextPasses(c, searchBox))

\* C2 witness: the box holds "Ab"; card 1 is found by its title "Ab", card 3
\* by its searchable blob "ab", and card 4 (title "a", project "B") is not.
C2_Witness ==
    /\ "handleSearch" \in ran
    /\ searchBox = <<"A", "b">>
    /\ cardDisplay[1]
    /\ cardDisplay[3]
    /\ ~cardDisplay[4]

\* C3: the date range is inclusive at both bounds and works with one bound
\* alone: after filterChats a card with a parseable date d that the other
\* predicates let through is visible if and only if (start is unset or
\* d >= start) and (end is unset or d <= end).
C3_DateRangeInclusive ==
    "filterChats" \in ran =>
        \A c \in CardIds :
            Parseable(c) /\ FolderPasses(c) /\ WarmupPasses(c) /\ TextPasses(c, searchTerm) =>
                (cardDisplay[c] <=> InRange(c))

\* C3 witness: the range is exactly [date of card 5, date of card 2]; both
\* cards, dated at the bounds, are visible and card 4, dated later, is hidden.
C3_Witness ==
    /\ "filterChats" \in ran
    /\ dateRangeStart = Some(Cards[5].date.tick)
    /\ dateRangeEnd = Some(Cards[2].date.tick)
    /\ cardDisplay[5]
    /\ cardDisplay[2]
    /\ ~cardDisplay[4]

\* C4 as claimed: while a date range is active, filterChats hides every card
\* whose date is unparseable.
C4_UnparseableDateExcluded ==
    "filterChats" \in ran /\ RangeActive =>
        \A c \in CardIds : ~Parseable(c) => ~cardDisplay[c]

\* C4 as amended: filterChats applies no date test to a card whose date is
\* unparseable: whatever the range, such a card is visible if and only if it
\* passes the folder, search and warmup predicates.
C4_UnparseableDatePassesRange ==
    "filterChats" \in ran =>
        \A c \in CardIds :
            ~Parseable(c) =>
                (cardDisplay[c] <=>
                    FolderPasses(c) /\ WarmupPasses(c) /\ TextPasses(c, searchTerm))

\* C4 witness: a range is active and card 3, whose date does not parse, is
\* visible while card 4, dated outside the range, is hidden.
C4_Witness ==
    /\ "filterChats" \in ran
    /\ RangeActive
    /\ cardDisplay[3]
    /\ ~cardDisplay[4]

\* C5: after filterChats a month group is hidden if and only if none of its
\* cards is visible, and a group that is shown displays the number of its
\* cards that are visible now.
C5_MonthGroupFollowsItsCards ==
    "filterChats" \in ran =>
        \A m \in MonthGroups :
            /\ groupDisplay[m] <=> VisibleIn(m) # {}
            /\ groupDisplay[m] => groupCount[m] = Cardinality(VisibleIn(m))

\* C5 witness: group 2024-01 is shown with one of its two cards visible and
\* the count 1, group 2024-02 is hidden although it was shown before.
C5_Witness ==
    /\ "filterChats" \in ran
    /\ groupDisplay["2024-01"]
    /\ groupCount["2024-01"] = 1
    /\ Cardinality(VisibleIn("2024-01")) = 1
    /\ ~groupDisplay["2024-02"]
    /\ groupCount["2024-02"] = 2

\* The conversations the last processData was given: all of them at the
\* Time Slider's init, those of the slider's folder at filterByFolder.
ProcessedInput == IF "init" \in ran THEN conversationData ELSE filteredData(tsFolder)
ValidConvs(data) == {i \in DOMAIN data : data[i].date.iso}
ValidTicks(data) == {data[i].date.tick : i \in ValidConvs(data)}
UnitTicks(granularity) == (IF granularity = "week" THEN 7 ELSE 1) * TicksPerDay
NonEmptyBuckets == {i \in DOMAIN buckets : buckets[i].conversations > 0}
RECURSIVE SumOver(_, _)
SumOver(f, S) == IF S = {} THEN 0 ELSE LET x == CHOOSE x \in S : TRUE IN f[x] + SumOver(f, S \ {x})

\* C6 as claimed: processData chooses 'day' buckets when the span between the
\* smallest and the largest parseable date is at most 60 days and 'week'
\* buckets when it is more, the same for every bucket of the build; the
\* conversations of 2024-01-01 and 2024-03-10 give weekly buckets of which
\* exactly two, not adjacent, are non-empty.
C6_GranularityFromSpan ==
    "processData" \in ran =>
        LET ticks == ValidTicks(ProcessedInput)
        IN /\ ticks # {} =>
                /\ buckets # <<>>
                /\ \A i \in DOMAIN buckets :
                       buckets[i].granularity =
                           IF SetMax(ticks) - SetMin(ticks) > 60 * TicksPerDay THEN "week" ELSE "day"
           /\ ProcessedInput = DataScenario =>
                /\ \A i \in DOMAIN buckets : buckets[i].granularity = "week"
                /\ \E i, j \in DOMAIN buckets : j > i + 1 /\ NonEmptyBuckets = {i, j}

\* C7 as claimed: after processData the buckets ascend by date, consecutive
\* ones exactly one unit (1 day, 7 days) apart, with no key twice; the first
\* covers the smallest and the last the largest parseable date; a weekly
\* bucket starts on a Sunday and its key is that Sunday's date.
C7_BucketsContiguous ==
    "processData" \in ran /\ buckets # <<>> =>
        LET n == Len(buckets)
            unit == UnitTicks(buckets[1].granularity)
            ticks == ValidTicks(ProcessedInput)
        IN /\ \A i \in 1..(n - 1) : buckets[i + 1].date = buckets[i].date + unit
           /\ \A i, j \in 1..n : i # j => buckets[i].key # buckets[j].key
           /\ buckets[1].date <= SetMin(ticks) /\ SetMin(ticks) < buckets[1].date + unit
           /\ buckets[n].date <= SetMax(ticks) /\ SetMax(ticks) < buckets[n].date + unit
           /\ \A i \in 1..n :
                  buckets[i].granularity = "week" =>
                      /\ (buckets[i].date + tz) % (7 * TicksPerDay) = 0
                      /\ buckets[i].key = (buckets[i].date + tz) \div TicksPerDay

\* C8 as claimed: processData counts every conversation with a parseable date
\* in exactly one bucket, the one whose interval holds its date, and none with
\* an unparseable date: the conversation counts add up to the number of valid
\* conversations and the message counts to the sum of their messages; no
\* valid date gives no bucket.
C8_EveryValidConversationCounted ==
    "processData" \in ran =>
        LET data == ProcessedInput
            valid == ValidConvs(data)
        IN /\ valid = {} => buckets = <<>>
           /\ SumOver([i \in DOMAIN buckets |-> buckets[i].conversations], DOMAIN buckets)
                  = Cardinality(valid)
           /\ SumOver([i \in DOMAIN buckets |-> buckets[i].messages], DOMAIN buckets)
                  = SumOver([i \in DOMAIN data |-> data[i].messages], valid)
           /\ \A i \in DOMAIN buckets :
                  buckets[i].conversations =
                      Cardinality({c \in valid :
                          /\ buckets[i].date <= data[c].date.tick
                          /\ data[c].date.tick < buckets[i].date + UnitTicks(buckets[i].granularity)})

\* C9 as claimed: whenever no drag is in progress and the selection is
\* non-null, 0 <= selectionStart <= selectionEnd < number of buckets.
C9_SelectionIndicesInRange ==
    ~isDragging /\ selectionStart # Null =>
        /\ selectionEnd # Null
        /\ 0 <= Val(selectionStart)
        /\ Val(selectionStart) <= Val(selectionEnd)
        /\ Val(selectionEnd) < Len(buckets)

\* 23:59:59.999 of the local day that holds instant t
LastTickOfDay(t) == CHOOSE e \in t..(t + TicksPerDay) :
                        /\ (e + tz) \div TicksPerDay = (t + tz) \div TicksPerDay
                        /\ (e + 1 + tz) \div TicksPerDay # (t + tz) \div TicksPerDay

\* C10: a gesture from bar a to bar b (mouse or touch) ends with
\* selectionStart = min(a, b) and selectionEnd = max(a, b), whatever the
\* direction, and calls the registered listener exactly once, when it
\* completes and not while it is under way, with the date of bucket min(a, b)
\* and 23:59:59.999 of the day of bucket max(a, b).
C10_GestureStep ==
    /\ gesture' # <<>> => calls' = <<>>
    /\ gesture # <<>> /\ isDragging /\ ~isDragging' =>
           LET lo == Min2(gesture[1], gesture[2])
               hi == Max2(gesture[1], gesture[2])
           IN /\ selectionStart' = Some(lo)
              /\ selectionEnd' = Some(hi)
              /\ onRangeChangeCallback # "null" =>
                     calls' = <<[startDate |-> Some(buckets[lo + 1].date),
                                 endDate |-> Some(LastTickOfDay(buckets[hi + 1].date))]>>
C10_GestureNormalisesAndNotifiesOnce == [][C10_GestureStep]_vars

\* C10 witness: a drag leftwards has completed: it started on the bar that is
\* now selectionEnd, the selection is ordered, and the listener was called
\* once, with dates.
C10_Witness ==
    /\ ~isDragging
    /\ gesture = <<>>
    /\ Len(calls) = 1
    /\ calls[1].startDate # Null
    /\ selectionStart # Null
    /\ dragStartIndex = selectionEnd
    /\ Val(selectionStart) < Val(selectionEnd)

\* (null, null) as the listener receives it
NoRange == [startDate |-> Null, endDate |-> Null]

\* C11: every selectFolder call, whatever the path, clears the date filter:
\* when it returns the Explorer's date range is (null, null), getSelection()
\* is null, the registered listener was notified with (null, null) and the
\* cards are filtered by folder, search and warmup alone.
C11_SelectFolderClearsDateFilter ==
    "selectFolder" \in ran =>
        /\ dateRangeStart = Null
        /\ dateRangeEnd = Null
        /\ getSelection(selectionStart, selectionEnd, buckets) = Null
        /\ onRangeChangeCallback # "null" => Len(calls) >= 1 /\ calls[Len(calls)] = NoRange
        /\ \A c \in CardIds :
               cardDisplay[c] <=> FolderPasses(c) /\ TextPasses(c, searchTerm) /\ WarmupPasses(c)

\* C11 witness: a folder was selected in the middle of a drag (the bar pressed
\* is still recorded): the selection is gone, the listener heard (null, null)
\* and card 4, which no selection of the slider's first bars includes, is shown.
C11_Witness ==
    /\ "selectFolder" \in ran
    /\ isDragging
    /\ dragStartIndex # Null
    /\ selectionStart = Null
    /\ calls = <<NoRange>>
    /\ cardDisplay[4]

\* C12 as claimed: on a non-empty bucket list, for every request
\* (startDate, endDate) with startDate <= endDate, the selection setSelection
\* stores, read back with getSelection, contains the request: its start bucket
\* begins at or before startDate (or is the first bucket), its end bucket
\* covers endDate (or is the last bucket when endDate lies beyond it).
C12_SetSelectionContainsRequest ==
    tsInit /\ buckets # <<>> =>
        \A startDate, endDate \in SelectionDates \ {Null} :
            Val(startDate) <= Val(endDate) =>
                LET ss == Some(setSelectionStart(buckets, startDate))
                    se == Some(setSelectionEnd(buckets, startDate, endDate))
                    sel == Val(getSelection(ss, se, buckets))
                    unit == UnitTicks(buckets[1].granularity)
                    first == buckets[1].date
                    last == buckets[Len(buckets)].date
                IN /\ sel.startDate # Null /\ sel.endDate # Null
                   /\ Val(sel.startDate) <= Val(startDate) \/ Val(sel.startDate) = first
                   /\ \/ Val(sel.endDate) <= Val(endDate) /\ Val(endDate) < Val(sel.endDate) + unit
                      \/ Val(sel.endDate) = last /\ Val(endDate) >= last
                      \/ Val(sel.endDate) = first /\ Val(endDate) < first

\* C13: clearSelection, from any state, leaves selectionStart and
\* selectionEnd null (getSelection() is null), leaves the bucket list as it
\* was and notifies the registered listener exactly once, with (null, null);
\* setSelection with a null start date does the same.
C13_ClearStep ==
    "clearSelection" \in ran' =>
        /\ selectionStart' = Null
        /\ selectionEnd' = Null
        /\ getSelection(selectionStart', selectionEnd', buckets') = Null
        /\ buckets' = buckets
        /\ calls' = (IF onRangeChangeCallback # "null" THEN <<NoRange>> ELSE <<>>)
C13_ClearSelectionResets == [][C13_ClearStep]_vars

\* C13 witness: the selection was cleared in the middle of a drag over a
\* histogram with bars, and the listener was called once.
C13_Witness ==
    /\ "clearSelection" \in ran
    /\ isDragging
    /\ dragStartIndex # Null
    /\ buckets # <<>>
    /\ selectionStart = Null
    /\ selectionEnd = Null
    /\ Len(calls) = 1

\* The conversations of the page-global list whose project is F, in order.
RECURSIVE OfProject(_, _)
OfProject(data, F) ==
    IF data = <<>> THEN <<>>
    ELSE IF F = <<>> \/ Head(data).project = F
         THEN <<Head(data)>> \o OfProject(Tail(data), F)
         ELSE OfProject(Tail(data), F)

\* C14: after filterByFolder(F) the bucket list is the one processData builds
\* from exactly the conversations whose project equals F (all of them when F
\* is empty), whatever folder and selection came before; the page-global list
\* is never modified.
C14_FilterStep ==
    /\ conversationData' = conversationData
    /\ "filterByFolder" \in ran' =>
           buckets' = processData(OfProject(conversationData, tsFolder'))
C14_FilterByFolderRebuilds == [][C14_FilterStep]_vars

\* C14 witness: the slider was rebuilt for folder "a" from a list that also
\* holds a dated conversation of another project, after another folder had
\* been shown: the buckets differ from those of the whole list.
C14_Witness ==
    /\ "selectFolder" \in ran
    /\ "filterByFolder" \in ran
    /\ tsFolder = <<"a">>
    /\ buckets # <<>>
    /\ buckets # processData(conversationData)

\* C20: search input is debounced with a 200 ms trailing delay: the debounced
\* handleSearch runs only when 200 ms have passed since the latest input
\* event, never earlier in the burst, once per burst (time does not pass 200
\* ms with the run still owed, and the run ends the burst), with the value the
\* box holds then; Escape empties the box and runs handleSearch at once,
\* whatever the timer.
C20_DebounceStep ==
    /\ "later" \in ran' =>
           /\ burst = Some(DebounceWait)
           /\ burst' = Null
           /\ "handleSearch" \in ran'
           /\ searchTerm' = Lower(searchBox)
           /\ \A c \in CardIds :
                  FolderPasses(c) /\ WarmupPasses(c) /\ ~RangeActive =>
                      (cardDisplay'[c] <=> TextPasses(c, searchBox))
    /\ burst # Null /\ Val(burst) < DebounceWait /\ "handleSearch" \in ran' => "Escape" \in ran'
    /\ burst' # Null => Val(burst') <= DebounceWait
    /\ burst = Null /\ burst' = Null => "later" \notin ran'
    /\ "Escape" \in ran' =>
           /\ "handleSearch" \in ran'
           /\ searchBox' = <<>>
           /\ searchTerm' = <<>>
           /\ burst' = burst
C20_SearchIsDebounced == [][C20_DebounceStep]_vars

\* C20 witness: the debounced run has just happened, for a box holding "Ab"
\* that a burst of input events left there: the term is "ab".
C20_Witness ==
    /\ "later" \in ran
    /\ searchBox = <<"A", "b">>
    /\ searchTerm = <<"a", "b">>
    /\ ~timerPending
    /\ burst = Null

\* The parts of selectChat a step can be: the call itself, the catch block
\* (the load failed), the end of a successful fetch.
ChatCallStep == "selectChat" \in ran' /\ chatCalls' = chatCalls + 1
ChatFailStep == "selectChat" \in ran' /\ chatCalls' = chatCalls /\ chatStep'.logged
ChatLoadedStep == "selectChat" \in ran' /\ chatCalls' = chatCalls /\ chatStep'.response = "parsed"

\* C15 as claimed: once the chat with key k has been fetched successfully,
\* every later selectChat for k issues no network request and renders the
\* cached object, whatever chats were selected in between.
C15_CachedStep ==
    ChatCallStep /\ Val(selectedChatId') \in fetchedOk =>
        /\ requestsSent' = requestsSent
        /\ pending' = pending
        /\ detailContent'
        /\ rendered' = selectedChatId'
C15_FetchedOnceThenCached == [][C15_CachedStep]_vars

\* C16 as claimed: every entry of the chat cache was stored by a successful
\* fetch of that same key (it holds that key's data), also when selections
\* overlap; a failed fetch leaves the cache as it was.
C16_CacheStep ==
    /\ \A k \in ChatKeys : chatCache'[k] # Null => k \in fetchedOk' /\ chatCache'[k] = Some(k)
    /\ ChatFailStep => chatCache' = chatCache
C16_CacheHoldsOnlyFetchedChats == [][C16_CacheStep]_vars

\* C17: when the fetch of a selected chat fails (network error or non-success
\* status; an unparseable body likewise) selectChat ends in the error state:
\* the loading placeholder is hidden, the error placeholder shows "Failed to
\* load chat", the error is logged, the promise is fulfilled, not rejected,
\* and no request is issued again.
C17_FailStep ==
    "selectChat" \in ran' /\ chatCalls' = chatCalls
        /\ chatStep'.response \in {"notOk", "networkError", "unparseable"} =>
            /\ ~detailLoading'
            /\ detailEmpty'
            /\ detailText' = "Failed to load chat"
            /\ chatStep'.logged
            /\ chatStep'.settled = "fulfilled"
            /\ requestsSent' = requestsSent
            /\ Len(pending') = Len(pending) - 1
            /\ chatCache' = chatCache
C17_FailedLoadShowsError == [][C17_FailStep]_vars

\* C17 witness: the only call made got a non-success status; the panel is in
\* the error state and nothing is in flight.
C17_Witness ==
    /\ "selectChat" \in ran
    /\ chatStep.response = "notOk"
    /\ chatCalls = 1
    /\ requestsSent = 1
    /\ pending = <<>>
    /\ ~detailLoading
    /\ ~detailContent
    /\ detailEmpty
    /\ detailText = "Failed to load chat"

\* C18: overlapping selectChat calls are not cancelled: a call leaves the
\* fetches in flight as they are, every one of them runs to its end, and a
\* response that arrives is rendered whatever chat is selected by then, so the
\* panel shows the chat whose response resolved last.
C18_OverlapStep ==
    /\ ChatCallStep => SubSeq(pending', 1, Len(pending)) = pending
    /\ ChatLoadedStep =>
           /\ rendered' = Some(chatStep'.key)
           /\ detailContent'
           /\ ~detailLoading'
           /\ \E i \in DOMAIN pending : pending[i].key = chatStep'.key /\ pending' = RemoveAt(pending, i)
C18_LastResponseWins == [][C18_OverlapStep]_vars

\* C18 witness: chat1 then chat2 were selected before either response; both
\* were fetched, chat1's response came last: chat2 is the selected chat and
\* the panel shows chat1.
C18_Witness ==
    /\ chatCalls = 2
    /\ requestsSent = 2
    /\ pending = <<>>
    /\ fetchedOk = ChatKeys
    /\ selectedChatId = Some("proj1/chat2")
    /\ chatStep.response = "parsed"
    /\ chatStep.key = "proj1/chat1"
    /\ rendered = Some("proj1/chat1")
    /\ detailContent

\* C19 as claimed: selectChat sets the URL's chat parameter (and pushes a
\* history entry) on success and only then: with updateUrl = false neither is
\* ever modified, only a selectChat with updateUrl = true modifies them, and
\* when the load of the only call made so far has failed the history is as it
\* was when the page was opened.
C19_UrlStep ==
    /\ ChatCallStep /\ ~chatStep'.updateUrl => urlChat' = urlChat /\ historyLen' = historyLen
    /\ urlChat' # urlChat \/ historyLen' # historyLen =>
           ChatCallStep /\ chatStep'.updateUrl /\ urlChat' = selectedChatId'
    /\ ChatFailStep /\ chatCalls' = 1 => historyLen' = 0
C19_UrlUpdatedOnSuccessOnly == [][C19_UrlStep]_vars

\* C21: on the detail page the warmup exclusion is on by default and applied
\* by init; while it is on every warmup card is hidden whatever the other
\* filters say, while it is off a card is visible exactly when it passes the
\* folder, search and date predicates, and toggleWarmupFilter re-applies all
\* the filters in the step that stores the flag.
C21_WarmupExclusion ==
    /\ ~exInit => ignoreWarmup
    /\ exInit /\ variant = "detail" =>
           /\ ignoreWarmup => \A c \in CardIds : Cards[c].warmup => ~cardDisplay[c]
           /\ ~ignoreWarmup =>
                  \A c \in CardIds :
                      cardDisplay[c] <=> FolderPasses(c) /\ TextPasses(c, searchTerm) /\ DatePasses(c)
           /\ "toggleWarmupFilter" \in ran =>
                  /\ "filterChats" \in ran
                  /\ \A c \in CardIds :
                         cardDisplay[c] <=>
                             /\ FolderPasses(c)
                             /\ TextPasses(c, searchTerm)
                             /\ DatePasses(c)
                             /\ ~(ignoreWarmup /\ Cards[c].warmup)

\* C21 witness: the exclusion was switched off on the detail page with folder
\* "a" active: the warmup card of the folder is visible, the card of another
\* folder is not.
C21_Witness ==
    /\ exInit
    /\ variant = "detail"
    /\ "toggleWarmupFilter" \in ran
    /\ ~ignoreWarmup
    /\ currentFolder = <<"a">>
    /\ cardDisplay[2]
    /\ ~cardDisplay[4]

\* C22: selectFolder(path, updateUrl) pushes exactly one history entry when
\* updateUrl is true (every call from the sidebar) and none when it is false
\* (the call init makes for the URL's folder, which leaves the URL as it was);
\* the URL pushed has its folder parameter equal to path when path is not
\* empty and no folder parameter when it is (folder <<>>), and its other query
\* parameters are those of the page's URL, which the call does not change.
C22_PushStep ==
    /\ "selectFolder" \in ran' =>
           /\ pushed' = <<[folder |-> currentFolder', chat |-> urlChat]>>
           /\ urlFolder' = currentFolder'
           /\ urlChat' = urlChat
    /\ ~exInit /\ exInit' =>
           /\ pushed' = <<>>
           /\ urlFolder' = urlFolder
           /\ urlChat' = urlChat
           /\ urlFolder # <<>> => currentFolder' = urlFolder
C22_SelectFolderPushesOneEntry == [][C22_PushStep]_vars

\* C22 witness: All Conversations was selected on a page whose URL named folder
\* "a" and a chat: one entry was pushed, without folder and with the chat.
C22_Witness ==
    /\ "selectFolder" \in ran
    /\ currentFolder = <<>>
    /\ urlChat = Some("proj1/chat1")
    /\ pushed = <<[folder |-> <<>>, chat |-> Some("proj1/chat1")]>>
    /\ urlFolder = <<>>
    /\ tsFolder = <<>>

\* The counts displayed by the month groups that are shown, added up.
RECURSIVE SumShownGroups(_)
SumShownGroups(months) ==
    IF months = {} THEN 0
    ELSE LET m == CHOOSE x \in months : TRUE
         IN (IF groupDisplay[m] THEN groupCount[m] ELSE 0) + SumShownGroups(months \ {m})
Ungrouped == {c \in CardIds : Cards[c].month \notin MonthGroups}

\* C23: after filterChats the visible-count readout is the number of visible
\* cards; it is the sum of the counts of the month groups shown plus the number
\* of visible cards outside every group, hence the sum of the per-month counts
\* whenever every (visible) card lies in a month group; and the empty-state
\* element is shown exactly when the number is zero.
C23_ReadoutsAgree ==
    "filterChats" \in ran =>
        /\ visibleCount = Cardinality({c \in CardIds : cardDisplay[c]})
        /\ visibleCount = SumShownGroups(MonthGroups)
                          + Cardinality({c \in Ungrouped : cardDisplay[c]})
        /\ emptyDisplay <=> visibleCount = 0

\* C23 witness: filterChats left two cards visible, both in the same month
\* group; the other groups are hidden and the empty state is not shown.
C23_Witness ==
    /\ "filterChats" \in ran
    /\ visibleCount = 2
    /\ \A c \in Ungrouped : ~cardDisplay[c]
    /\ groupDisplay["2024-01"] /\ groupCount["2024-01"] = 2
    /\ ~groupDisplay["2024-02"]
    /\ ~groupDisplay["2023-12"]
    /\ ~emptyDisplay

\* C24: the Time Slider holds a single listener and the last registration
\* wins.  Registering calls nobody and selects nothing.  Every notification
\* (a completed selection, clearSelection, filterByFolder) calls the listener
\* held exactly once and no other: while another script's listener is held the
\* Explorer's listener is not run (its range and the cards stay as they are,
\* but for what selectFolder itself does to them), while the Explorer's is held
\* it receives the range.  With no listener held nothing is called, and the
\* operations complete all the same: the selection is normalised, cleared, or
\* cleared with the buckets rebuilt.
C24_ListenerStep ==
    /\ "onRangeChange" \in ran' =>
           /\ calls' = <<>>
           /\ UNCHANGED <<selectionStart, selectionEnd, dateRangeStart, dateRangeEnd, domVars>>
    /\ "notifyRangeChange" \in ran' =>
           /\ Len(calls') = (IF onRangeChangeCallback = "null" THEN 0 ELSE 1)
           /\ onRangeChangeCallback # "null"
                  /\ ("clearSelection" \in ran' \/ "filterByFolder" \in ran') =>
                  calls'[1] = [startDate |-> Null, endDate |-> Null]
           /\ onRangeChangeCallback # "explorer" /\ exInit /\ "selectFolder" \notin ran' =>
                  /\ UNCHANGED <<dateRangeStart, dateRangeEnd, domVars>>
                  /\ "filterChats" \notin ran'
           /\ onRangeChangeCallback = "explorer" =>
                  /\ dateRangeStart' = calls'[1].startDate
                  /\ dateRangeEnd' = calls'[1].endDate
           /\ "clearSelection" \in ran' => selectionStart' = Null /\ selectionEnd' = Null
           /\ "handleMouseUp" \in ran' =>
                  /\ ~isDragging'
                  /\ selectionStart' # Null
                  /\ selectionEnd' # Null
                  /\ Val(selectionStart') <= Val(selectionEnd')
           /\ "filterByFolder" \in ran' =>
                  /\ selectionStart' = Null
                  /\ selectionEnd' = Null
                  /\ buckets' = processData(filteredData(tsFolder'))
C24_LastRegistrationWins == [][C24_ListenerStep]_vars

\* C24 witness: after the Explorer's listener another one was registered and a
\* drag over two bars was completed: one call was made, the selection stands,
\* and the Explorer, whose listener was not run, has no date range.
C24_Witness ==
    /\ exInit
    /\ onRangeChangeCallback = "other"
    /\ "handleMouseUp" \in ran
    /\ "notifyRangeChange" \in ran
    /\ Len(calls) = 1
    /\ calls[1].startDate # Null
    /\ selectionStart = Some(0)
    /\ selectionEnd = Some(1)
    /\ dateRangeStart = Null

\* C25 as claimed: restoreNavigationContext (list page, run by init) is one-shot
\* and failure-tolerant: after it sessionStorage holds no 'returnContext'
\* entry, whatever was stored; a stored value that does not parse is logged
\* and leaves the date range and the folder as they were, and init goes on to
\* register its listener.
C25_RestoreStep ==
    ~exInit /\ exInit' /\ variant = "list" =>
        /\ storage'.kind = "none"
        /\ storage.kind = "malformed" =>
               /\ "console.error" \in ran'
               /\ dateRangeStart' = dateRangeStart
               /\ dateRangeEnd' = dateRangeEnd
               /\ currentFolder' = (IF urlFolder # <<>> THEN urlFolder ELSE currentFolder)
               /\ onRangeChangeCallback' = "explorer"
C25_RestoreIsOneShot == [][C25_RestoreStep]_vars

\* C26 as claimed: saving and restoring is a round trip.  When init restores a
\* saved range and passes it to setSelection, over the bucket list the range
\* was selected on, the selection it makes is the selection [i..j] whose
\* notified (startDate, endDate) was saved, for daily and weekly buckets.
C26_RestoreStep ==
    ~exInit /\ exInit' /\ tsInit /\ storage.kind = "json" /\ storage.start # Null =>
        \A i, j \in 0..(Len(buckets') - 1) :
            i <= j /\ RangeArgs(Some(i), Some(j), buckets')
                        = [startDate |-> storage.start, endDate |-> storage.end] =>
                selectionStart' = Some(i) /\ selectionEnd' = Some(j)
C26_SaveRestoreRoundTrip == [][C26_RestoreStep]_vars

\* The cards of the conversation summaries: card k describes conversation k.
\* The page modelled shows the cards of DataCards; for other data the card of
\* a conversation is shown when it passes the Explorer's date test.
ConvsInFolder ==
    {k \in DOMAIN conversationData :
        /\ currentFolder = <<>> \/ conversationData[k].project = currentFolder
        /\ conversationData[k].date.iso}
ConvShown(k) ==
    IF conversationData = DataCards
    THEN cardDisplay[k]
    ELSE matchesDateRange([date |-> conversationData[k].date], dateRangeStart, dateRangeEnd)
InsideBuckets(k, i, j) ==
    /\ buckets[i + 1].date <= conversationData[k].date.tick
    /\ conversationData[k].date.tick < buckets[j + 1].date + UnitTicks(buckets[j + 1].granularity)
SelectionCompleted ==
    /\ "handleMouseUp" \in ran
    /\ "notifyRangeChange" \in ran
    /\ onRangeChangeCallback = "explorer"
    /\ selectionStart # Null
    /\ Val(selectionStart) \in 0..(Len(buckets) - 1)
    /\ Val(selectionEnd) \in 0..(Len(buckets) - 1)

\* C27 as claimed: the histogram and the card list agree.  With no search term
\* and no warmup filter, after a completed selection [i..j] the visible cards
\* (of dated chats) are exactly the cards whose date falls inside buckets
\* i..j, the days or the whole weeks that the bars stand for, and their number
\* is the sum of the 'conversations' counts of the selected buckets.
C27_HistogramAndCardsAgree ==
    SelectionCompleted /\ searchTerm = <<>> /\ variant = "list" =>
        LET i == Val(selectionStart)
            j == Val(selectionEnd)
        IN /\ \A k \in ConvsInFolder : ConvShown(k) <=> InsideBuckets(k, i, j)
           /\ Cardinality({k \in ConvsInFolder : ConvShown(k)})
                  = SumOver([b \in DOMAIN buckets |-> buckets[b].conversations], (i + 1)..(j + 1))

\* C28 as claimed: between handlers, from init on, the visibility of the cards
\* reflects the Explorer's filter state: a card is visible exactly when it
\* passes the folder, search, date-range and (detail page) warmup predicates
\* for the current folder, search term, date range and warmup flag; so after
\* an init that restored a date range the cards outside the range are hidden.
C28_CardsReflectFilterState ==
    exInit =>
        \A c \in CardIds :
            cardDisplay[c] <=>
                /\ FolderPasses(c)
                /\ TextPasses(c, searchTerm)
                /\ DatePasses(c)
                /\ WarmupPasses(c)

\* C29 as claimed: the Explorer's date range and the Time Slider's selection
\* stay in step.  Whenever the Explorer's listener is registered and no drag
\* is in progress, the range is (null, null) when nothing is selected, and
\* otherwise (the date of bucket selectionStart, 23:59:59.999 of the date of
\* bucket selectionEnd), after any sequence of selections, clearSelection,
\* selectFolder and setSelection and whichever module initialised first.
C29_RangeAndSelectionInStep ==
    onRangeChangeCallback = "explorer" /\ ~isDragging =>
        IF selectionStart = Null
        THEN dateRangeStart = Null /\ dateRangeEnd = Null
        ELSE /\ Val(selectionStart) \in 0..(Len(buckets) - 1)
             /\ selectionEnd # Null
             /\ Val(selectionEnd) \in 0..(Len(buckets) - 1)
             /\ dateRangeStart = Some(buckets[Val(selectionStart) + 1].date)
             /\ dateRangeEnd = Some(LastTickOfDay(buckets[Val(selectionEnd) + 1].date))

\* C30 as claimed: the detail panel is in exactly one state: at most one of the
\* loading placeholder, the rendered content and the empty/error placeholder
\* is visible at any time, under any interleaving of calls and responses, and
\* the loading placeholder is visible only while a fetch is in flight.
C30_PanelInOneState ==
    /\ ~(detailLoading /\ detailContent)
    /\ ~(detailLoading /\ detailEmpty)
    /\ ~(detailContent /\ detailEmpty)
    /\ detailLoading => pending # <<>>

\* C31 as claimed: the drag state of the Time Slider is well formed under any
\* interleaving of mouse/touch events with clearSelection, filterByFolder and
\* setSelection: a drag in progress has a selectionStart, selectionEnd is set
\* only when selectionStart is, and after clearSelection or filterByFolder no
\* drag is in progress.
C31_DragStateWellFormed ==
    /\ isDragging => selectionStart # Null
    /\ selectionEnd # Null => selectionStart # Null
    /\ "clearSelection" \in ran \/ "filterByFolder" \in ran => ~isDragging

\* C32: a debounced call still pending when Escape is pressed cannot bring a
\* stale term back.  Every run of handleSearch, immediate or debounced, leaves
\* searchTerm equal to the lower-cased value the box holds at that moment;
\* Escape empties the box and the term and leaves the timer running; and
\* while the box stays empty an empty term stays empty, whatever fires.
C32_SearchStep ==
    /\ "handleSearch" \in ran' => searchTerm' = Lower(searchBox')
    /\ "Escape" \in ran' =>
           /\ searchBox' = <<>>
           /\ searchTerm' = <<>>
           /\ timerPending' = timerPending
           /\ timerLeft' = timerLeft
    /\ searchBox = <<>> /\ searchTerm = <<>> /\ searchBox' = <<>> => searchTerm' = <<>>
    /\ "later" \in ran' /\ searchBox = <<>> =>
           /\ searchTerm' = <<>>
           /\ \A c \in CardIds : cardDisplay'[c] => TextPasses(c, <<>>)
C32_NoStaleTermAfterEscape == [][C32_SearchStep]_vars

\* C32 witness: Escape was pressed while the debounced call of an earlier
\* input was due: box and term are empty and the timer is about to fire.
C32_Witness ==
    /\ "Escape" \in ran
    /\ timerPending
    /\ timerLeft = 0
    /\ burst # Null
    /\ searchBox = <<>>
    /\ searchTerm = <<>>

\* C33: during a drag the anchor is fixed and only the end follows the
\* pointer.  A mouse-down (touch-start) on bar a starts a drag with the
\* selection [a, a]; a move leaves selectionStart as it is and, during a drag,
\* sets selectionEnd to the bar it is over or, over no bar, leaves it; so
\* while the gesture is under way selectionStart is its first bar and
\* selectionEnd its latest.  A move, mouse-up or mouse-leave while no drag is
\* in progress changes neither the selection nor the buckets nor what the
\* Explorer shows, and calls nobody.  A mouse-up or mouse-leave (one handler)
\* during a drag ends it, and with a selection normalises it and notifies.
C33_PointerStep ==
    /\ "handleMouseDown" \in ran' /\ pointer' # Null =>
           /\ isDragging'
           /\ selectionStart' = pointer'
           /\ selectionEnd' = pointer'
           /\ calls' = <<>>
    /\ "handleMouseMove" \in ran' =>
           /\ selectionStart' = selectionStart
           /\ isDragging' = isDragging
           /\ buckets' = buckets
           /\ calls' = <<>>
           /\ isDragging /\ pointer' # Null => selectionEnd' = pointer'
           /\ isDragging /\ pointer' = Null => selectionEnd' = selectionEnd
    /\ isDragging' /\ gesture' # <<>> =>
           /\ selectionStart' = Some(gesture'[1])
           /\ selectionEnd' = Some(gesture'[2])
    /\ ~isDragging /\ ("handleMouseMove" \in ran' \/ "handleMouseUp" \in ran') =>
           /\ UNCHANGED <<selectionStart, selectionEnd, isDragging, buckets>>
           /\ UNCHANGED <<dateRangeStart, dateRangeEnd, domVars>>
           /\ calls' = <<>>
           /\ "notifyRangeChange" \notin ran'
    /\ isDragging /\ "handleMouseUp" \in ran' =>
           /\ ~isDragging'
           /\ buckets' = buckets
           /\ selectionStart # Null =>
                  /\ selectionStart' = Some(SelLow(selectionStart, selectionEnd))
                  /\ selectionEnd' = Some(SelHigh(selectionStart, selectionEnd))
                  /\ "notifyRangeChange" \in ran'
C33_AnchorFixedEndFollows == [][C33_PointerStep]_vars

\* C33 witness: a drag that started on bar 1 has just moved over bar 0: the
\* anchor is still bar 1 and the end is bar 0; nobody was called.
C33_Witness ==
    /\ "handleMouseMove" \in ran
    /\ isDragging
    /\ gesture = <<1, 0>>
    /\ pointer = Some(0)
    /\ selectionStart = Some(1)
    /\ selectionEnd = Some(0)
    /\ calls = <<>>

\* C34: the filter predicates are independent state.  selectFolder sets the
\* folder and clears the date range and leaves the search term (and the
\* warmup flag) as it is; handleSearch leaves folder, date range and warmup
\* flag; a range-change notification (outside selectFolder) leaves folder,
\* search term and warmup flag; toggleWarmupFilter leaves folder, search term
\* and date range; none of the Explorer's own operations touches the
\* selection.  toggleMetric switches the metric and leaves buckets, selection
\* and the Explorer's filters and cards as they are, and notifies nobody.
C34_FilterStep ==
    /\ "selectFolder" \in ran' =>
           /\ dateRangeStart' = Null
           /\ dateRangeEnd' = Null
           /\ UNCHANGED <<searchTerm, ignoreWarmup>>
    /\ "handleSearch" \in ran' =>
           UNCHANGED <<currentFolder, dateRangeStart, dateRangeEnd, ignoreWarmup,
                       selectionStart, selectionEnd, buckets>>
    /\ "notifyRangeChange" \in ran' /\ "selectFolder" \notin ran' /\ exInit =>
           UNCHANGED <<currentFolder, searchTerm, ignoreWarmup>>
    /\ "toggleWarmupFilter" \in ran' =>
           UNCHANGED <<currentFolder, searchTerm, dateRangeStart, dateRangeEnd,
                       selectionStart, selectionEnd, buckets>>
    /\ "toggleMetric" \in ran' =>
           /\ currentMetric' # currentMetric
           /\ UNCHANGED <<buckets, selectionStart, selectionEnd, isDragging>>
           /\ UNCHANGED <<filterVars, domVars>>
           /\ calls' = <<>>
           /\ "notifyRangeChange" \notin ran'
C34_FiltersAreIndependent == [][C34_FilterStep]_vars

\* C34 witness: with a folder, a search term and a selected range all active
\* the metric was switched: the filters and the selection are still there.
C34_Witness ==
    /\ "toggleMetric" \in ran
    /\ currentMetric = "messages"
    /\ currentFolder = <<"a">>
    /\ searchTerm = <<"a">>
    /\ dateRangeStart # Null
    /\ selectionStart # Null
    /\ ~isDragging

=============================================================================
